---- MODULE Spec2Model ----
(***************************************************************************)
(* Model of task04/task04.ipynb: the SoundDataset index and label encoder, *)
(* the RandomChop / Specgram / ToTensor transform chain and the DataLoader *)
(* workers that call SoundDataset.__getitem__.                             *)
(*                                                                         *)
(* A Python string is modelled as a sequence of tokens; a folder name or a *)
(* file name is one token, "/" and "\n" are tokens of their own.           *)
(***************************************************************************)
EXTENDS Integers, Sequences, FiniteSets, TLC

VARIABLES
    directory,   \* the paths directory.glob('*/*.wav') yields, in listing order
    views,       \* train_dataset / valid_dataset: the SoundDataset objects
    result,      \* the outcome of the last __getitem__ call
    consumed,    \* whether train() / evaluate() has used a returned sample
    length,      \* RandomChop.length
    gen,         \* state of the np.random generator of each process
    audio,       \* the sample dict wavfile.read gave RandomChop
    chopped,     \* the sample dict RandomChop returned
    chop_arg,    \* len of the array handed to _chop_audio, -1 if not called
    clip,        \* sample rate and number of samples of the last file read
    specgram,    \* shape of the spectrogram the transform chain returned
    shapes,      \* every spectrogram shape returned so far
    resampled,   \* lengths of the array Specgram resampled and of the result
    workers      \* the DataLoader worker processes

datasetVars == <<directory, views, result, consumed>>

chopVars == <<length, audio, chopped, chop_arg>>

gramVars == <<clip, specgram, shapes, resampled>>

vars == <<datasetVars, chopVars, gramVars, gen, workers>>

\* What the dataset's operations never touch.
chainVars == <<chopVars, gramVars, gen, workers>>

----------------------------------------------------------------------------
(* Bounds and input universes                                              *)

MaxFiles == 2

ViewIds == {"train", "valid"}

RawLabels == {"yes", "_background_noise_", "banana", "silence", "unknown"}

FileNames == {"a.wav", "b.wav"}

\* Contents a subset list file can have (file.read_text()).
SubsetTexts ==
    { <<"yes", "/", "a.wav">>,
      <<"yes", "/", "a.wav", "\n", "banana", "/", "b.wav", "/", "x">>,
      <<"yes", "/", "c.wav">>,
      <<"yes", "/", "a.wav", "\n">>,
      <<"a.wav">>,
      <<>> }

Indices == -(MaxFiles + 1) .. (MaxFiles + 1)

Range(s) == { s[i] : i \in 1 .. Len(s) }

\* directory.glob('*/*.wav') walks the label folders one after the other, so
\* the paths of one folder are contiguous in the listing, and no path repeats.
IsListing(s) ==
    /\ \A i, j \in 1 .. Len(s) : i # j => s[i] # s[j]
    /\ \A i, j, k \in 1 .. Len(s) :
          (i < j /\ j < k /\ s[i][1] = s[k][1]) => s[j][1] = s[i][1]

Listings ==
    { s \in UNION { [1 .. n -> RawLabels \X FileNames] : n \in 0 .. MaxFiles } :
        IsListing(s) }

----------------------------------------------------------------------------
(* legal_labels and the label encoder                                      *)

legal_labels ==
    <<"yes", "no", "up", "down", "left", "right",
      "on", "off", "stop", "go", "silence", "unknown">>

\* sorted(legal_labels): the order pandas gives the columns of get_dummies.
SortedClasses ==
    <<"down", "go", "left", "no", "off", "on",
      "right", "silence", "stop", "unknown", "up", "yes">>

\* Variant of the loop body without the test for the noise folder.
MutCanonicalNoNoise(label) ==
    IF label \notin Range(legal_labels) THEN "unknown"
    ELSE label

\* The loop body of _transform_labels: one raw label to its class name.
Canonical(label) ==
    IF label = "_background_noise_" THEN "silence"
    ELSE IF label \notin Range(legal_labels) THEN "unknown"
    ELSE label

NLabels(labels) == [i \in 1 .. Len(labels) |-> Canonical(labels[i])]

\* pd.get_dummies(pd.Series(nlabels)): one column per distinct value that
\* occurs in nlabels, the columns in sorted order.
DummyColumns(nlabels) ==
    SelectSeq(SortedClasses, LAMBDA c : c \in Range(nlabels))

\* Variant with drop_first=True: the first column is left out.
MutGetDummiesDropFirst(nlabels) ==
    LET cols == Tail(DummyColumns(nlabels))
    IN  [i \in 1 .. Len(nlabels) |->
            [k \in 1 .. Len(cols) |-> IF nlabels[i] = cols[k] THEN 1 ELSE 0]]

GetDummies(nlabels) ==
    LET cols == DummyColumns(nlabels)
    IN  [i \in 1 .. Len(nlabels) |->
            [k \in 1 .. Len(cols) |-> IF nlabels[i] = cols[k] THEN 1 ELSE 0]]

TransformLabels(labels) == GetDummies(NLabels(labels))

----------------------------------------------------------------------------
(* _load_subset                                                            *)

FirstIndex(s, sep) ==
    IF \E i \in 1 .. Len(s) : s[i] = sep
    THEN CHOOSE i \in 1 .. Len(s) : s[i] = sep /\ \A j \in 1 .. i - 1 : s[j] # sep
    ELSE 0

\* str.split(sep): always at least one segment, the last one possibly empty.
RECURSIVE Split(_, _)
Split(s, sep) ==
    LET i == FirstIndex(s, sep)
    IN  IF i = 0 THEN <<s>>
        ELSE <<SubSeq(s, 1, i - 1)>> \o Split(SubSeq(s, i + 1, Len(s)), sep)

\* path.split('/')[1] raises IndexError on a line without a '/'.
SubsetLoads(text) ==
    \A line \in Range(Split(text, "\n")) : Len(Split(line, "/")) >= 2

\* Variant that takes the first segment of each line, path.split('/')[0].
MutLoadSubsetFirstSegment(text) ==
    { Split(line, "/")[1] : line \in Range(Split(text, "\n")) }

LoadSubset(text) ==
    { Split(line, "/")[2] : line \in Range(Split(text, "\n")) }

----------------------------------------------------------------------------
(* _is_needed, _list_of_wavs, unzip2                                       *)

\* Variant that ignores the subset.
MutIsNeededAlways(has_subset, subset, path) == TRUE

\* name in self._subset, name being path.parts[-1]
IsNeeded(has_subset, subset, path) ==
    IF has_subset THEN <<path[2]>> \in subset ELSE TRUE

\* Variant whose listing comes back in the opposite order once a dataset
\* has been built over the directory.
MutListOfWavsRescan(has_subset, subset) ==
    LET wavs == SelectSeq(directory, LAMBDA path : IsNeeded(has_subset, subset, path))
    IN  IF \E v \in ViewIds : views[v].status = "built"
        THEN [i \in 1 .. Len(wavs) |-> wavs[Len(wavs) + 1 - i]]
        ELSE wavs

ListOfWavs(has_subset, subset) ==
    SelectSeq(directory, LAMBDA path : IsNeeded(has_subset, subset, path))

\* a, b = zip(*values) raises ValueError when values is empty.
Unzips(values) == Len(values) > 0

Unzip2(values) ==
    <<[i \in 1 .. Len(values) |-> values[i][1]],
      [i \in 1 .. Len(values) |-> values[i][2]]>>

----------------------------------------------------------------------------
(* SoundDataset                                                            *)

NoView ==
    [status |-> "unbuilt", has_subset |-> FALSE, text |-> <<>>, subset |-> {},
     labels |-> <<>>, sounds |-> <<>>, nlabels |-> <<>>, transformed |-> <<>>]

Failed(has_subset, text, subset, error) ==
    [NoView EXCEPT !.status = error, !.has_subset = has_subset,
                   !.text = text, !.subset = subset]

\* SoundDataset.__init__(directory, subset_path): the object, or the
\* exception that leaves no object behind.
NewDataset(has_subset, text) ==
    IF has_subset /\ ~SubsetLoads(text)
    THEN Failed(has_subset, text, {}, "IndexError")
    ELSE LET subset == IF has_subset THEN LoadSubset(text) ELSE {}
             wavs   == ListOfWavs(has_subset, subset)
         IN  IF ~Unzips(wavs)
             THEN Failed(has_subset, text, subset, "ValueError")
             ELSE [status      |-> "built",
                   has_subset  |-> has_subset,
                   text        |-> text,
                   subset      |-> subset,
                   labels      |-> Unzip2(wavs)[1],
                   sounds      |-> Unzip2(wavs)[2],
                   nlabels     |-> NLabels(Unzip2(wavs)[1]),
                   transformed |-> TransformLabels(Unzip2(wavs)[1])]

Built(v) == views[v].status = "built"

\* __len__
DatasetLen(v) == Len(views[v].labels)

\* seq[idx] of a Python list or a numpy array: the 1-based position read,
\* 0 when the access raises IndexError.
PyIndex(n, idx) ==
    IF 0 <= idx /\ idx < n THEN idx + 1
    ELSE IF -n <= idx /\ idx < 0 THEN n + idx + 1
    ELSE 0

NoResult ==
    [kind |-> "none", view |-> "train", idx |-> 0,
     file |-> <<>>, label |-> <<>>]

\* Variant that takes the label vector of the row after the one it reads.
MutGetItemResultNextRow(v, idx) ==
    LET p == PyIndex(DatasetLen(v), idx)
    IN  IF p = 0
        THEN [NoResult EXCEPT !.kind = "IndexError", !.view = v, !.idx = idx]
        ELSE [kind   |-> "sample",
              view   |-> v,
              idx    |-> idx,
              file   |-> <<views[v].labels[p], views[v].sounds[p]>>,
              label  |-> views[v].transformed[(p % DatasetLen(v)) + 1]]

\* __getitem__(idx) up to the sample dict handed to self.transform.
GetItemResult(v, idx) ==
    LET p == PyIndex(DatasetLen(v), idx)
    IN  IF p = 0
        THEN [NoResult EXCEPT !.kind = "IndexError", !.view = v, !.idx = idx]
        ELSE [kind   |-> "sample",
              view   |-> v,
              idx    |-> idx,
              file   |-> <<views[v].labels[p], views[v].sounds[p]>>,
              label  |-> views[v].transformed[p]]


----------------------------------------------------------------------------
(* np.random: the process-global generator RandomChop draws from           *)

GenModulus == 7

GenStates == 0 .. GenModulus - 1

\* np.random.randint(0, high): a value in [0, high) that the generator state
\* determines; every draw moves the generator to its next state.
RandInt(g, high) == g % high

NextGen(g) == (g + 1) % GenModulus

----------------------------------------------------------------------------
(* RandomChop                                                              *)

Zeros(n) == [i \in 1 .. n |-> 0]

\* Variant that pads after the audio instead of before it.
MutPadAudioRight(samples, len) ==
    IF Len(samples) >= len THEN samples
    ELSE samples \o Zeros(len - Len(samples))

\* np.pad(samples, pad_width=(length - len(samples), 0), mode='constant')
PadAudio(samples, len) ==
    IF Len(samples) >= len THEN samples
    ELSE Zeros(len - Len(samples)) \o samples

ChopStart(samples, len, g) == RandInt(g, Len(samples) - len)

\* samples[start : start + self.length]
ChopAudio(samples, len, g) ==
    LET start == ChopStart(samples, len, g)
    IN  SubSeq(samples, start + 1, start + len)

\* Whether __call__ hands the padded array to _chop_audio.
Chops(samples, len) == Len(PadAudio(samples, len)) > len

\* RandomChop.__call__
RandomChopCall(sample, len, g) ==
    LET padded == PadAudio(sample.samples, len)
    IN  [sample_rate |-> sample.sample_rate,
         samples     |-> IF Chops(sample.samples, len)
                         THEN ChopAudio(padded, len, g)
                         ELSE padded,
         label       |-> sample.label]

\* The number of samples RandomChop.__call__ returns for n samples given.
PadLen(n, len) == IF n >= len THEN n ELSE len

ChopLen(n, len) == IF PadLen(n, len) > len THEN len ELSE PadLen(n, len)

----------------------------------------------------------------------------
(* Specgram and ToTensor, on array shapes                                  *)

ChopDefault == 16000

SpecgramRate == 8000

window_size == 20

step_size == 10

\* Python's round(num / den): to the nearest integer, a tie to the even one.
PyRound(num, den) ==
    LET q == num \div den
        r == num % den
    IN  IF 2 * r < den THEN q
        ELSE IF 2 * r > den THEN q + 1
        ELSE IF q % 2 = 0 THEN q ELSE q + 1

\* Variant that rounds to the nearest integer.
MutResampledLenRound(n, sample_rate, target_rate) ==
    PyRound(target_rate * n, sample_rate)

\* int(self.sample_rate / sample_rate * samples.shape[0]): int() truncates.
ResampledLen(n, sample_rate, target_rate) == (target_rate * n) \div sample_rate

\* _log_specgram: signal.spectrogram gives nperseg // 2 + 1 frequencies and
\* (n - noverlap) // (nperseg - noverlap) segments; spec.T puts time first.
LogSpecgramShape(n, sample_rate) ==
    LET nperseg  == PyRound(window_size * sample_rate, 1000)
        noverlap == PyRound(step_size * sample_rate, 1000)
    IN  <<(n - noverlap) \div (nperseg - noverlap), nperseg \div 2 + 1>>

\* Specgram.__call__: specgram.reshape(1, shape[0], shape[1])
SpecgramShape(n, sample_rate, target_rate) ==
    LET shape == LogSpecgramShape(ResampledLen(n, sample_rate, target_rate),
                                  target_rate)
    IN  <<1, shape[1], shape[2]>>

\* ToTensor.__call__: torch.from_numpy keeps the shape (and shares the memory).
ToTensorShape(shape) == shape

\* data_transform = Compose([RandomChop(), Specgram(), ToTensor()])
TransformShape(n, sample_rate, len) ==
    ToTensorShape(SpecgramShape(ChopLen(n, len), sample_rate, SpecgramRate))

----------------------------------------------------------------------------
(* DataLoader workers                                                      *)

NumWorkers == 4

Workers == 1 .. NumWorkers

\* Process 0 is the notebook's own process.
Procs == 0 .. NumWorkers

MaxDraws == 2

NoWorker == [status |-> "idle", seed |-> 0, draws |-> <<>>]

\* The worker is forked from the notebook's process and inherits a copy of
\* its np.random state: a DataLoader that seeds only torch's generator.
ForkedGen(w) == gen[0]

\* A DataLoader that also calls np.random.seed(base_seed + worker_id).
SeededGen(w) == (gen[0] + w) % GenModulus

----------------------------------------------------------------------------
(* Input universes of the transform chain                                  *)

MaxLen == 4

SampleValues == {0, 1}

SampleRates == {8000, 16000}

Audios ==
    { [sample_rate |-> r, samples |-> s, label |-> <<0, 1>>] :
        r \in SampleRates,
        s \in UNION { [1 .. n -> SampleValues] : n \in 0 .. MaxLen } }

ChopLengths == 1 .. MaxLen - 1

NoSample == [sample_rate |-> 0, samples |-> <<>>, label |-> <<>>]

ClipRates == {8000, 16000, 22050, 44100}

ClipLens == {ChopDefault - 4000, ChopDefault, ChopDefault + 1, ChopDefault + 4000}

\* Long enough that RandInt gives a different start in every generator state.
WorkerClipLens == {ChopDefault + GenModulus, ChopDefault + GenModulus + 1}

NoClip == [sample_rate |-> 0, n |-> 0]

\* Values of RandomChop's length argument for the transform chain.
GramLengths == {ChopDefault, ChopDefault + 1}

NoResample == [from |-> 0, to |-> 0]

----------------------------------------------------------------------------
(* Actions of the dataset                                                  *)

IdleDataset ==
    /\ directory = <<>>
    /\ views = [v \in ViewIds |-> NoView]
    /\ result = NoResult
    /\ consumed = FALSE

IdleChop ==
    /\ audio = NoSample
    /\ chopped = NoSample
    /\ chop_arg = -1

IdleGram ==
    /\ clip = NoClip
    /\ specgram = <<>>
    /\ shapes = {}
    /\ resampled = NoResample

IdleWorkers == workers = [w \in Workers |-> NoWorker]

Init ==
    /\ directory \in Listings
    /\ views = [v \in ViewIds |-> NoView]
    /\ result = NoResult
    /\ consumed = FALSE
    /\ length = ChopDefault
    /\ gen = [p \in Procs |-> 0]
    /\ IdleChop
    /\ IdleGram
    /\ IdleWorkers

\* SoundDataset(train_data_path, ...) without a subset file.
ConstructFull(v) ==
    /\ views[v].status = "unbuilt"
    /\ views' = [views EXCEPT ![v] = NewDataset(FALSE, <<>>)]
    /\ UNCHANGED <<directory, result, consumed, chainVars>>

\* SoundDataset(train_data_path, subset_path, ...).
ConstructSubset(v) ==
    /\ views[v].status = "unbuilt"
    /\ \E text \in SubsetTexts :
          views' = [views EXCEPT ![v] = NewDataset(TRUE, text)]
    /\ UNCHANGED <<directory, result, consumed, chainVars>>

\* Variant of __getitem__ that rewrites the stored label row in place.
MutGetItemSmoothing(v, idx) ==
    /\ Built(v)
    /\ result' = GetItemResult(v, idx)
    /\ views' = IF result'.kind = "sample"
                THEN [views EXCEPT ![v].transformed[PyIndex(DatasetLen(v), idx)] =
                        [k \in 1 .. Len(result'.label) |-> 0]]
                ELSE views
    /\ UNCHANGED <<directory, consumed, chainVars>>

\* One __getitem__ call, by the notebook or by any DataLoader worker: the call
\* writes no field of the dataset, so concurrent calls are an interleaving of
\* these steps.
GetItem(v, idx) ==
    /\ Built(v)
    /\ result' = GetItemResult(v, idx)
    /\ UNCHANGED <<directory, views, consumed, chainVars>>

\* train() and evaluate() read batch['samples'] and batch['label'] of the
\* batches the DataLoader collates (by copy) from the returned samples, and
\* drop the batch.
Consume ==
    /\ result.kind = "sample"
    /\ consumed' = TRUE
    /\ result' = NoResult
    /\ UNCHANGED <<directory, views, chainVars>>

Next ==
    \/ \E v \in ViewIds : ConstructFull(v)
    \/ \E v \in ViewIds : ConstructSubset(v)
    \/ \E v \in ViewIds, idx \in Indices : GetItem(v, idx)
    \/ Consume

Spec == Init /\ [][Next]_vars

----------------------------------------------------------------------------
(* RandomChop applied to one sample after the other                        *)

InitChop ==
    /\ IdleDataset
    /\ IdleGram
    /\ IdleWorkers
    /\ length \in ChopLengths
    /\ \E g \in GenStates : gen = [p \in Procs |-> IF p = 0 THEN g ELSE 0]
    /\ audio \in Audios
    /\ chopped = NoSample
    /\ chop_arg = -1

\* wavfile.read hands the next sample to the transform.
ChopRead ==
    /\ chopped # NoSample
    /\ audio' \in Audios
    /\ chopped' = NoSample
    /\ chop_arg' = -1
    /\ UNCHANGED <<length, gen, datasetVars, gramVars, workers>>

ChopCall ==
    /\ chopped = NoSample
    /\ chopped' = RandomChopCall(audio, length, gen[0])
    /\ chop_arg' = IF Chops(audio.samples, length)
                   THEN Len(PadAudio(audio.samples, length)) ELSE -1
    /\ gen' = IF Chops(audio.samples, length)
              THEN [gen EXCEPT ![0] = NextGen(gen[0])] ELSE gen
    /\ UNCHANGED <<length, audio, datasetVars, gramVars, workers>>

NextChop == ChopRead \/ ChopCall

SpecChop == InitChop /\ [][NextChop]_vars

----------------------------------------------------------------------------
(* The transform chain on array shapes, one __getitem__ after the other    *)

InitGram ==
    /\ IdleDataset
    /\ IdleChop
    /\ IdleWorkers
    /\ IdleGram
    /\ length \in GramLengths
    /\ \E g \in GenStates : gen = [p \in Procs |-> IF p = 0 THEN g ELSE 0]

GramGetItem(sample_rate, n) ==
    /\ clip' = [sample_rate |-> sample_rate, n |-> n]
    /\ specgram' = TransformShape(n, sample_rate, length)
    /\ shapes' = shapes \cup {specgram'}
    /\ resampled' = [from |-> ChopLen(n, length),
                     to   |-> ResampledLen(ChopLen(n, length), sample_rate,
                                           SpecgramRate)]
    /\ gen' = IF PadLen(n, length) > length
              THEN [gen EXCEPT ![0] = NextGen(gen[0])] ELSE gen
    /\ UNCHANGED <<datasetVars, chopVars, workers>>

NextGram ==
    \E sample_rate \in ClipRates, n \in ClipLens : GramGetItem(sample_rate, n)

SpecGram == InitGram /\ [][NextGram]_vars

----------------------------------------------------------------------------
(* DataLoader(num_workers=4): the workers and their generators             *)

InitWorkers ==
    /\ IdleDataset
    /\ IdleChop
    /\ IdleGram
    /\ IdleWorkers
    /\ length = ChopDefault
    /\ \E g \in GenStates : gen = [p \in Procs |-> IF p = 0 THEN g ELSE 0]

ForkWorker(w) ==
    /\ workers[w].status = "idle"
    /\ gen' = [gen EXCEPT ![w] = ForkedGen(w)]
    /\ workers' = [workers EXCEPT ![w] =
                     [status |-> "running", seed |-> ForkedGen(w), draws |-> <<>>]]
    /\ UNCHANGED <<datasetVars, chopVars, gramVars>>

SeedWorker(w) ==
    /\ workers[w].status = "idle"
    /\ gen' = [gen EXCEPT ![w] = SeededGen(w)]
    /\ workers' = [workers EXCEPT ![w] =
                     [status |-> "running", seed |-> SeededGen(w), draws |-> <<>>]]
    /\ UNCHANGED <<datasetVars, chopVars, gramVars>>

\* __getitem__ in worker w on a file of n > length samples: _chop_audio draws
\* the start from the worker's own copy of np.random.
WorkerGetItem(w, n) ==
    /\ workers[w].status = "running"
    /\ Len(workers[w].draws) < MaxDraws
    /\ PadLen(n, length) > length
    /\ workers' = [workers EXCEPT ![w].draws =
                     Append(@, <<n, RandInt(gen[w], PadLen(n, length) - length)>>)]
    /\ gen' = [gen EXCEPT ![w] = NextGen(gen[w])]
    /\ UNCHANGED <<datasetVars, chopVars, gramVars>>

NextWorkers ==
    \/ \E w \in Workers : ForkWorker(w)
    \/ \E w \in Workers : SeedWorker(w)
    \/ \E w \in Workers, n \in WorkerClipLens : WorkerGetItem(w, n)

SpecWorkers == InitWorkers /\ [][NextWorkers]_vars

----------------------------------------------------------------------------
(* Properties of the label encoder and the index                           *)

BuiltViews == { v \in ViewIds : Built(v) }

Rows(v) == 1 .. Len(views[v].labels)

HotPositions(vector) == { k \in 1 .. Len(vector) : vector[k] = 1 }

VocabIndex(class) == CHOOSE k \in 1 .. Len(legal_labels) : legal_labels[k] = class

\* C1: in any two views over the same directory, a raw folder name that
\* occurs in both has the same canonical class and the 1 of its one-hot
\* vector at the same position.
C1_SameEncodingInBothViews ==
    \A v1 \in BuiltViews, v2 \in BuiltViews :
        \A i \in Rows(v1), j \in Rows(v2) :
            views[v1].labels[i] = views[v2].labels[j] =>
                /\ views[v1].nlabels[i] = views[v2].nlabels[j]
                /\ HotPositions(views[v1].transformed[i]) =
                   HotPositions(views[v2].transformed[j])

\* C2: every label vector has one entry per class of legal_labels (12), the
\* single 1 at the index its canonical class has in legal_labels.
C2_VectorOverLegalLabels ==
    \A v \in BuiltViews : \A i \in Rows(v) :
        /\ Len(views[v].transformed[i]) = Len(legal_labels)
        /\ HotPositions(views[v].transformed[i]) = {VocabIndex(views[v].nlabels[i])}

\* C3 as stated: _background_noise_ gives silence; otherwise a name of the
\* vocabulary other than silence and unknown gives itself; every other name,
\* a folder named silence or unknown included, gives unknown.
C3_SilenceFolderIsUnknown ==
    \A v \in BuiltViews : \A i \in Rows(v) :
        views[v].nlabels[i] =
            IF views[v].labels[i] = "_background_noise_" THEN "silence"
            ELSE IF views[v].labels[i] \in Range(legal_labels) \ {"silence", "unknown"}
                 THEN views[v].labels[i]
            ELSE "unknown"

\* C3 as amended: _background_noise_ gives silence; otherwise a name of the
\* vocabulary, silence and unknown included, gives itself; every other name
\* gives unknown.
C3_CanonicalClass ==
    \A v \in BuiltViews : \A i \in Rows(v) :
        /\ views[v].labels[i] = "_background_noise_" =>
              views[v].nlabels[i] = "silence"
        /\ views[v].labels[i] \in Range(legal_labels) =>
              views[v].nlabels[i] = views[v].labels[i]
        /\ views[v].labels[i] \notin Range(legal_labels) \cup {"_background_noise_"} =>
              views[v].nlabels[i] = "unknown"

C3_Witness ==
    \E v \in BuiltViews : \E i \in Rows(v), j \in Rows(v) :
        /\ views[v].labels[i] = "_background_noise_"
        /\ views[v].labels[j] = "silence"
        /\ views[v].nlabels[i] = "silence"
        /\ views[v].nlabels[j] = "silence"

Entries(v) == { <<views[v].labels[i], views[v].sounds[i]>> : i \in Rows(v) }

\* C4: a view built with a subset file holds the directory entry (label,
\* filename) exactly when the filename is in the filter set, whatever the
\* label; the file "yes/a.wav" alone over yes/a.wav and yes/b.wav gives the
\* one entry (yes, a.wav).
C4_FilterByFilename ==
    \A v \in BuiltViews :
        /\ views[v].has_subset =>
              \A e \in Range(directory) :
                  e \in Entries(v) <=> <<e[2]>> \in views[v].subset
        /\ Len(views[v].labels) = Len(views[v].sounds)
        /\ Cardinality(Entries(v)) = Len(views[v].labels)
        /\ ( /\ views[v].text = <<"yes", "/", "a.wav">>
             /\ directory = << <<"yes", "a.wav">>, <<"yes", "b.wav">> >> )
           => /\ views[v].labels = <<"yes">>
              /\ views[v].sounds = <<"a.wav">>

\* The file "yes/a.wav" keeps banana/a.wav and drops yes/b.wav.
C4_Witness ==
    \E v \in BuiltViews :
        /\ views[v].has_subset
        /\ views[v].text = <<"yes", "/", "a.wav">>
        /\ directory = << <<"banana", "a.wav">>, <<"yes", "b.wav">> >>
        /\ views[v].labels = <<"banana">>
        /\ views[v].sounds = <<"a.wav">>

\* A construction that was attempted, whose subset file (if any) loaded.
Attempted(v) ==
    /\ views[v].status # "unbuilt"
    /\ views[v].status # "IndexError"

MatchesNothing(v) ==
    \A e \in Range(directory) :
        views[v].has_subset /\ <<e[2]>> \notin views[v].subset

\* C5: constructing a view over an empty directory, or with a filter that
\* matches no file, succeeds with length 0, and every get(i) on it fails
\* with an out-of-range error.
C5_EmptyCorpusIsBuilt ==
    \A v \in ViewIds :
        (Attempted(v) /\ MatchesNothing(v)) =>
            /\ Built(v)
            /\ DatasetLen(v) = 0
            /\ (result.kind # "none" /\ result.view = v) => result.kind = "IndexError"

\* C6: get(index) succeeds only for 0 <= index < length(); every other
\* index, a negative one included, fails with a bounds error and is never
\* wrapped onto another entry.
C6_GetIsBoundsChecked ==
    result.kind # "none" =>
        ( result.kind = "sample" <=>
            (0 <= result.idx /\ result.idx < DatasetLen(result.view)) )

\* C10: once a view is built, no step (a get by any caller, a consumer using
\* a returned sample) changes its entries, its label vectors or anything
\* else it holds, and every get(i) that succeeds returns the label vector
\* the construction stored for i.
C10_GetLeavesViewUnchanged ==
    [][ /\ \A v \in BuiltViews : views'[v] = views[v]
        /\ directory' = directory
        /\ result'.kind = "sample" =>
              result'.label =
                  views[result'.view].transformed[
                      PyIndex(DatasetLen(result'.view), result'.idx)] ]_vars

\* A get that succeeds after a consumer has used an earlier sample.
C10_Witness ==
    /\ consumed
    /\ result.kind = "sample"
    /\ \A v \in ViewIds : Built(v)
    /\ result.label = TransformLabels(views[result.view].labels)[
                          PyIndex(DatasetLen(result.view), result.idx)]

RECURSIVE SumSeq(_)
SumSeq(vector) ==
    IF vector = <<>> THEN 0 ELSE Head(vector) + SumSeq(Tail(vector))

OneHot(vector) ==
    /\ \A k \in 1 .. Len(vector) : vector[k] \in {0, 1}
    /\ Cardinality(HotPositions(vector)) = 1
    /\ SumSeq(vector) = 1

\* C11: every label vector a view holds, and every label a get returns, has
\* exactly one entry equal to 1 and all others 0, so its entries sum to 1.
C11_LabelVectorsAreOneHot ==
    /\ \A v \in BuiltViews :
          /\ Len(views[v].transformed) = Len(views[v].labels)
          /\ \A i \in Rows(v) : OneHot(views[v].transformed[i])
    /\ result.kind = "sample" => OneHot(result.label)

\* A get on a view of two classes returns the vector of the first class.
C11_Witness ==
    /\ result.kind = "sample"
    /\ Len(result.label) = 2
    /\ result.label[1] = 1
    /\ OneHot(result.label)
    /\ \E i \in Rows(result.view) :
          views[result.view].transformed[i] = <<0, 1>>

\* The filter of view v1 is contained in the filter of view v2; a view built
\* without a subset file keeps every file.
FilterWithin(v1, v2) ==
    /\ Attempted(v1)
    /\ Attempted(v2)
    /\ views[v1].has_subset
    /\ views[v2].has_subset => views[v1].subset \subseteq views[v2].subset

\* C12: for every directory and filters F1 within F2, the view filtered by
\* F1 and the view filtered by F2 can both be constructed, and the first is
\* no longer than the second; both are no longer than the unfiltered view.
C12_SmallerFilterSmallerView ==
    \A v1 \in ViewIds, v2 \in ViewIds :
        FilterWithin(v1, v2) =>
            /\ Built(v1)
            /\ Built(v2)
            /\ DatasetLen(v1) <= DatasetLen(v2)

SameFilter(v1, v2) ==
    /\ views[v1].has_subset = views[v2].has_subset
    /\ views[v1].subset = views[v2].subset

EncodedClasses(v, vector) ==
    { DummyColumns(NLabels(views[v].labels))[k] : k \in HotPositions(vector) }

\* C14: in every built view the label list, the filename list and the
\* label-vector list have the same length; row i of each refers to the same
\* file, and get(i) for i below the length reads <label_i>/<filename_i> and
\* returns the vector that encodes the canonical class of label_i.
C14_SequencesAreAligned ==
    /\ \A v \in BuiltViews :
          /\ Len(views[v].sounds) = Len(views[v].labels)
          /\ Len(views[v].transformed) = Len(views[v].labels)
          /\ \A i \in Rows(v) :
                EncodedClasses(v, views[v].transformed[i]) =
                    {Canonical(views[v].labels[i])}
    /\ ( /\ result.kind = "sample"
         /\ 0 <= result.idx
         /\ result.idx < DatasetLen(result.view) )
       => /\ result.file = <<views[result.view].labels[result.idx + 1],
                             views[result.view].sounds[result.idx + 1]>>
          /\ EncodedClasses(result.view, result.label) =
                 {Canonical(views[result.view].labels[result.idx + 1])}

\* get(1) on a view of two files of different classes.
C14_Witness ==
    /\ result.kind = "sample"
    /\ result.idx = 1
    /\ DatasetLen(result.view) = 2
    /\ result.file = <<"banana", "b.wav">>
    /\ views[result.view].labels = <<"yes", "banana">>
    /\ EncodedClasses(result.view, result.label) = {"unknown"}
    /\ EncodedClasses(result.view, views[result.view].transformed[1]) = {"yes"}

\* The positions at which a line of the text starts: the first one and the
\* one after every newline, the end of a text that ends in a newline included.
LineStarts(text) ==
    { i \in 1 .. Len(text) + 1 : i = 1 \/ text[i - 1] = "\n" }

\* The end of the piece that starts at i and runs up to a token of stops.
PieceEnd(text, i, stops) ==
    CHOOSE e \in i - 1 .. Len(text) :
        /\ \A k \in i .. e : text[k] \notin stops
        /\ e = Len(text) \/ text[e + 1] \in stops

LineHasSlash(text, i) ==
    PieceEnd(text, i, {"/", "\n"}) < Len(text) /\
    text[PieceEnd(text, i, {"/", "\n"}) + 1] = "/"

\* What stands between the first "/" of the line that starts at i and the
\* next "/" or the end of the line.
SecondSegment(text, i) ==
    LET slash == PieceEnd(text, i, {"/", "\n"}) + 1
    IN  SubSeq(text, slash + 1, PieceEnd(text, slash + 1, {"/", "\n"}))

\* C16: a construction with a subset file ends in an error and leaves no
\* view, not even a partial one, whenever some line of the text has no "/",
\* the empty line after a trailing newline included; when every line has a
\* "/", loading succeeds and the filter holds the second "/"-separated
\* segment of each line.
C16_SubsetFileLoading ==
    /\ \A v \in ViewIds :
          (views[v].status # "unbuilt" /\ views[v].has_subset) =>
              LET text == views[v].text
              IN  IF \E i \in LineStarts(text) : ~LineHasSlash(text, i)
                  THEN /\ views[v].status = "IndexError"
                       /\ views[v].labels = <<>>
                       /\ views[v].sounds = <<>>
                       /\ views[v].transformed = <<>>
                  ELSE /\ views[v].status # "IndexError"
                       /\ views[v].subset =
                              { SecondSegment(text, i) : i \in LineStarts(text) }
    /\ result.kind # "none" => Built(result.view)

\* One construction failed on the empty line after a trailing newline, the
\* other loaded two lines, one of three segments, and kept the second
\* segment of each.
C16_Witness ==
    /\ views["train"].text = <<"yes", "/", "a.wav", "\n">>
    /\ views["train"].status = "IndexError"
    /\ views["valid"].text =
          <<"yes", "/", "a.wav", "\n", "banana", "/", "b.wav", "/", "x">>
    /\ views["valid"].subset = { <<"a.wav">>, <<"b.wav">> }
    /\ Built("valid")

----------------------------------------------------------------------------
(* Properties of RandomChop                                                *)

\* C7: RandomChop with target T on audio of length L returns exactly T
\* samples at the same sample rate: for L >= T a contiguous run of T input
\* samples, for L < T the input after T - L zeros; _chop_audio is never
\* handed fewer than T samples.
C7_ChopToLength ==
    chopped # NoSample =>
        LET L == Len(audio.samples)
            T == length
            out == chopped.samples
        IN  /\ Len(out) = T
            /\ chopped.sample_rate = audio.sample_rate
            /\ L >= T => \E off \in 0 .. L - T :
                            \A i \in 1 .. T : out[i] = audio.samples[off + i]
            /\ L < T => /\ \A i \in 1 .. T - L : out[i] = 0
                        /\ \A i \in 1 .. L : out[T - L + i] = audio.samples[i]
            /\ chop_arg # -1 => chop_arg >= T

C7_Witness ==
    /\ chopped # NoSample
    /\ Len(audio.samples) > length
    /\ chop_arg > length
    /\ chopped.samples # SubSeq(audio.samples, 1, length)
    /\ 1 \in Range(chopped.samples)

----------------------------------------------------------------------------
(* Properties of the spectrogram shape                                     *)

\* C8: with the chop length and the Specgram parameters fixed, every get
\* returns a spectrogram of one and the same shape (1, time_bins,
\* freq_bins), whatever the file's sample rate and duration.
C8_OneSpectrogramShape == Cardinality(shapes) <= 1

\* C15 as stated: Specgram resamples n samples at rate r to exactly
\* round(target_rate / r * n) samples, rounding to nearest and not
\* truncating; 16000 samples at 16000 Hz give 8000 at target 8000.
C15_ResampleRoundsToNearest ==
    clip # NoClip =>
        /\ resampled.to = PyRound(SpecgramRate * resampled.from, clip.sample_rate)
        /\ (resampled.from = 16000 /\ clip.sample_rate = 16000) =>
              resampled.to = 8000

\* C15 as amended: Specgram resamples n samples at rate r to
\* int(target_rate / r * n) samples, the quotient truncated toward zero and
\* not rounded; 16000 samples at 16000 Hz give 8000 at target 8000.
C15_ResampleTruncates ==
    clip # NoClip =>
        /\ resampled.to * clip.sample_rate <= SpecgramRate * resampled.from
        /\ SpecgramRate * resampled.from < (resampled.to + 1) * clip.sample_rate
        /\ (resampled.from = 16000 /\ clip.sample_rate = 16000) =>
              resampled.to = 8000

\* 16000 samples at 22050 Hz: 5804.98... is cut to 5804, not rounded to 5805.
C15_Witness ==
    /\ clip.sample_rate = 22050
    /\ resampled = [from |-> 16000, to |-> 5804]
    /\ PyRound(SpecgramRate * resampled.from, clip.sample_rate) = 5805

----------------------------------------------------------------------------
(* Properties of the workers' generators                                   *)

Running == { w \in Workers : workers[w].status = "running" }

Inputs(w) == [i \in 1 .. Len(workers[w].draws) |-> workers[w].draws[i][1]]

\* C9: each worker draws its crop offsets from a generator of its own that
\* is seeded distinctly from the other workers', so two workers given the
\* same inputs do not produce the same sequence of crop offsets.
C9_WorkersDrawDifferentOffsets ==
    \A w1 \in Running, w2 \in Running :
        (w1 # w2 /\ Inputs(w1) # <<>> /\ Inputs(w1) = Inputs(w2)) =>
            workers[w1].draws # workers[w2].draws

====
